---- MODULE Spec2Model ----
(***************************************************************************)
(* Test execution engine of testforge (backend/app/core/engine.py), its    *)
(* run endpoints (backend/app/api/v1/test_runs.py) and startup recovery    *)
(* (backend/app/main.py).                                                  *)
(*                                                                         *)
(* The persisted state is the test_runs / test_results tables; the only    *)
(* shared in-memory state is the process registry _running_processes.      *)
(* Every flow (engine task, stop request, start request) owns its own      *)
(* database session: a read sees the last committed row, a commit writes   *)
(* the attributes the flow changed on its loaded copy of the row.  One     *)
(* action is one stretch of a coroutine between two suspension points.     *)
(***************************************************************************)
EXTENDS Integers, Sequences, FiniteSets, TLC

\* ------------------------------------------------------------------ bounds
\* runs that reach the concurrency guard beyond MAX_CONCURRENT_RUNS
Extra == 1
\* stop requests issued per run
MaxStops == 2
\* start requests issued per run
MaxStarts == 1
\* outcomes a structured report may hold
MaxTests == 2
\* PATCH requests (update_test_run) issued per run
MaxPatches == 1
\* lines in the project's .env files
MaxLines == 2
\* parallel_workers of the project's configuration
MaxWorkers == 2
\* accepted generated tests of the project
MaxAccepted == 2
\* max_iterations of the test generator agent: 3 unless the caller sets it
MaxIterations == 3
\* start_scan requests for the project
MaxScanRequests == 2

\* ---------------------------------------------------------- program values
MAX_CONCURRENT_RUNS == 5

\* run ids.  Runs share nothing but the registry, whose size only the concurrency
\* guard reads: the request flows are explored on one run (Spec), the guard on
\* all of them (SpecCap)
AllRuns == 1..(MAX_CONCURRENT_RUNS + Extra)
Runs == {1}

NoRow == "none"
PENDING == "pending"
RUNNING == "running"
PASSED == "passed"
FAILED == "failed"
CANCELLED == "cancelled"
SKIPPED == "skipped"
ERROR == "error"

TestRunStatus == {PENDING, RUNNING, PASSED, FAILED, CANCELLED, ERROR}
TestResultStatus == {PASSED, FAILED, SKIPPED, ERROR}
Terminal == {PASSED, FAILED, CANCELLED}

\* error_message values (NULL is the empty string)
NoMessage == ""
MsgRestart == "Server restarted during run"
MsgDetect == "Could not detect test runner"
MsgExecutable == "Executable not found"
MsgCwd == "Test working directory not found"
MsgTooMany == "Too many concurrent runs (5 max)"
MsgTimeout == "Test run timed out after 5 minutes"
MsgStart == "Failed to start test process"

\* exit status of a killed subprocess (SIGKILL)
KilledCode == -9

ZeroCounts == [total |-> 0, passed |-> 0, failed |-> 0, skipped |-> 0]

VARIABLES
    phase,          \* "startup" until _recover_orphaned_jobs has run, then "serving"
    status,         \* test_runs.status, committed
    counts,         \* test_runs.total_tests/passed_tests/failed_tests/skipped_tests
    error_message,  \* test_runs.error_message
    results,        \* test_results rows of the run, committed
    pc,             \* position of the run's engine task (_execute)
    sess,           \* the engine session's loaded copy of the row: status and counts
    parsed,         \* _execute's local list of result dicts
    ended,          \* how the engine task ended: "" while it has not
    registry,       \* keys of _running_processes
    proc,           \* the run's subprocess: none, alive, dead (exit not seen yet), reaped
    exitcode,       \* exit status of a dead subprocess
    kills,          \* number of proc.kill() calls on the run's handle
    stops,          \* stop requests of the run: issued, waiting to kill, waiting to commit
    starts,         \* start requests of the run: issued, waiting to commit
    patches,        \* PATCH requests of the run served so far
    removes,        \* history: times the run's key was taken out of the registry
    before,         \* history: the row as the process found it at startup
    earlyStop,      \* history: a stop request was read before the subprocess had exited
    cancelledLive,  \* history: a stop request committed CANCELLED while the subprocess
                    \* was running or its output was being drained
    manifests,      \* the project's dependency manifests in the synced workspace
    essentials,     \* _ESSENTIALS_VERSION of the running code
    python_bin,     \* .testforge_venv/bin/python exists
    stamp,          \* text of .testforge_venv/.req_hash, NoStamp when the file is absent
    last,           \* history: the last call of _ensure_project_venv
    broken,         \* history: an install phase failed and no attempt has succeeded since
    output,         \* what the run's subprocess writes: stdout_text and stderr_text
    reported,       \* history: the outcomes structured parsing gave, before the fallback
    synthetic,      \* history: the outcome the fallback made, NoOutcome when it made none
    config,         \* the project's ProjectConfig row and what _execute finds around it
    proc_env,       \* the environment _execute builds for the subprocess
    project,        \* a project directory and the tools _detect_runner finds on PATH
    detected,       \* what _detect_runner gave for it
    accepted,       \* the project's accepted GeneratedTest records
    ts_skipped,     \* _execute's ts_skipped: the records reported as skipped
    wroteTests,     \* history: the accepted records were materialized for the run
    oracle,         \* what the AI provider answers in each round of the generator
    agent,          \* TestGeneratorAgent.generate: its state dict and position
    scan_jobs,      \* the scan_jobs rows of one project, in the order of their creation
    scan_reqs       \* start_scan requests for that project: position and response

dbVars == <<status, counts, error_message, results>>
taskVars == <<pc, sess, parsed, ended>>
procVars == <<proc, exitcode, kills>>
reqVars == <<stops, starts, patches>>
histVars == <<removes, before, earlyStop, cancelledLive>>

wsVars == <<manifests, essentials, python_bin, stamp, last, broken>>

ioVars == <<output, reported, synthetic>>

envVars == <<config, proc_env>>

detectVars == <<project, detected>>

\* the components that are modelled by themselves
agentVars == <<oracle, agent>>

soloVars == <<envVars, detectVars, agentVars>>

genVars == <<accepted, ts_skipped, wroteTests>>

scanVars == <<scan_jobs, scan_reqs>>

auxVars == <<soloVars, genVars, scanVars>>

vars ==
    <<phase, dbVars, taskVars, registry, procVars, reqVars, histVars, wsVars, ioVars,
      auxVars>>

\* ------------------------------------------------------------- pure helpers
RECURSIVE CountStatus(_, _)
CountStatus(seq, st) ==
    IF seq = <<>> THEN 0
    ELSE (IF Head(seq) = st THEN 1 ELSE 0) + CountStatus(Tail(seq), st)

\* the summary _execute computes from its result list
Summary(seq) ==
    [total |-> Len(seq),
     passed |-> CountStatus(seq, PASSED),
     failed |-> CountStatus(seq, FAILED),
     skipped |-> CountStatus(seq, SKIPPED)]

FinalStatus(seq) == IF CountStatus(seq, FAILED) = 0 THEN PASSED ELSE FAILED

\* proc.returncode is None until the event loop has observed the exit
ReturncodeIsNone(r) == proc[r] # "reaped"

\* a fallback that takes every empty report for a failure
SyntheticAlwaysFailed(code) == <<FAILED>>

\* the single result synthesized from the exit code when parsing yields nothing
Synthetic(code) == <<IF code = 0 THEN PASSED ELSE FAILED>>

\* captured output: nothing, blank lines only, or some text
NoText == ""
Blank == "\n"
Texts == {NoText, Blank, "text on stdout", "text on stderr"}
Outputs == [stdout : {NoText, Blank, "text on stdout"},
            stderr : {NoText, Blank, "text on stderr"}]

\* str.strip() on these texts
Strip(t) == IF t = Blank THEN NoText ELSE t

\* engine.py 1585: (stderr_text or stdout_text)[:500].strip()
ErrorSnippet(out) == Strip(IF out.stderr # NoText THEN out.stderr ELSE out.stdout)

\* engine.py 1588-1599: the synthetic result dict; a NULL error_message is NoText
NoOutcome == [made |-> FALSE, status |-> "", error_message |-> NoText]
SyntheticOutcome(code, out) ==
    [made |-> TRUE, status |-> Synthetic(code)[1], error_message |-> ErrorSnippet(out)]

\* a normalizer without the fallback
NoFallback(structured, code) == structured

WithFallback(structured, code) ==
    IF structured = <<>> THEN Synthetic(code) ELSE structured

\* structured reports: every list of at most MaxTests outcomes
Reports == UNION {[1..n -> TestResultStatus] : n \in 0..MaxTests}

\* an ORM flush writes an attribute only when it differs from the loaded value
Flush(db, loaded, new) == IF new = loaded THEN db ELSE new

\* ------------------------------------------------------------ provisioning
\* a manifest file: absent, or present with its content as a list of byte chunks
NoFile == [present |-> FALSE, bytes |-> <<>>]
File(bytes) == [present |-> TRUE, bytes |-> bytes]

\* relative paths as _req_hash feeds them to the digest
RootPath == "requirements.txt"
BackendPath == "backend/requirements.txt"

\* contents a project may give its manifests
RootFiles == {NoFile, File(<<"flask">>), File(<<"flask", BackendPath, "pytest">>)}
BackendFiles == {NoFile, File(<<"pytest">>)}
Manifests == [root : RootFiles, backend : BackendFiles]
EssentialsVersions == {"v2", "v3"}

\* .req_hash does not exist
NoStamp == <<>>

\* _req_hash: h.update(relative path), h.update(content) for every manifest found
Hashed(path, f) == IF f.present THEN <<path>> \o f.bytes ELSE <<>>

\* _req_hash: the byte stream the MD5 digest is taken of, the essentials version
\* first; the digest itself is taken as one-to-one on streams
ReqHash(m, version) ==
    <<"essentials:", version>> \o Hashed(RootPath, m.root)
                               \o Hashed(BackendPath, m.backend)

\* _collect_test_dependencies: the requirement lines of the manifests found
CollectTestDependencies(m) == m.root.bytes \o m.backend.bytes

\* what the fingerprint is computed from
Inputs == [manifests |-> manifests, essentials |-> essentials]

\* a variant without the fast path
NeverUpToDate(h) == FALSE

\* engine.py 320-331: the venv exists and the stored fingerprint is the current one
UpToDate(h) == python_bin /\ stamp # NoStamp /\ stamp = h

\* exit of the three install commands (_stream_install_cmd returns success only
\* for exit status 0 within the time limit) and of hash_file.write_text
Outcomes == [venv : BOOLEAN, phase1 : BOOLEAN, phase2 : BOOLEAN, write : BOOLEAN]

\* a variant that stamps although Phase 2 failed
InstallOkPhase1Only(o, deps) == o.phase1

\* engine.py 345-387: install_ok after both phases; Phase 2 runs only with deps
InstallOk(o, deps) == o.phase1 /\ (deps = <<>> \/ o.phase2)

\* the record of one call: what ran, what it returned, and what came before it
Call(fast, venv, phase1, phase2, wrote, result) ==
    [called |-> TRUE, fast |-> fast, venv |-> venv, phase1 |-> phase1,
     phase2 |-> phase2, wrote |-> wrote, result |-> result, inputs |-> Inputs,
     again |-> last.called,
     unchanged |-> last.called /\ last.inputs = Inputs,
     prevStamped |-> last.called /\ (last.fast \/ last.wrote),
     prevResult |-> last.result]

NoCall ==
    [called |-> FALSE, fast |-> FALSE, venv |-> "skipped", phase1 |-> "skipped",
     phase2 |-> "skipped", wrote |-> FALSE, result |-> "none",
     inputs |-> [manifests |-> [root |-> NoFile, backend |-> NoFile],
                 essentials |-> "v2"],
     again |-> FALSE, unchanged |-> FALSE, prevStamped |-> FALSE,
     prevResult |-> "none"]

Ran(ok) == IF ok THEN "ok" ELSE "failed"

\* engine.py 296-406: one call of _ensure_project_venv, the commands ending as o says
EnsureProjectVenv(o) ==
    LET current_hash == ReqHash(manifests, essentials)
        test_deps == CollectTestDependencies(manifests)
        install_ok == InstallOk(o, test_deps)
        phase2 == IF test_deps = <<>> THEN "skipped" ELSE Ran(o.phase2)
    IN  /\ IF UpToDate(current_hash)
           THEN /\ last' = Call(TRUE, "skipped", "skipped", "skipped", FALSE, "bin")
                /\ UNCHANGED <<python_bin, stamp, broken>>
           ELSE IF ~o.venv
           THEN /\ last' = Call(FALSE, "failed", "skipped", "skipped", FALSE, "none")
                /\ UNCHANGED <<python_bin, stamp, broken>>
           ELSE /\ python_bin' = TRUE
                /\ stamp' = IF install_ok /\ o.write THEN current_hash ELSE stamp
                /\ last' = Call(FALSE, "ok", Ran(o.phase1), phase2,
                                install_ok /\ o.write, "bin")
                /\ broken' = ~install_ok
        /\ UNCHANGED <<manifests, essentials>>

\* the project's files are synced again: one manifest appears, changes or goes
EditManifests(m) ==
    /\ m # manifests
    /\ m.root = manifests.root \/ m.backend = manifests.backend
    /\ manifests' = m
    /\ UNCHANGED <<essentials, python_bin, stamp, last, broken>>

\* a release of the engine with another essentials list
BumpEssentials(v) ==
    /\ v # essentials
    /\ essentials' = v
    /\ UNCHANGED <<manifests, python_bin, stamp, last, broken>>

\* a workspace that earlier runs have provisioned and found up to date
Provisioned(m, v) ==
    /\ manifests = m
    /\ essentials = v
    /\ python_bin = TRUE
    /\ stamp = ReqHash(m, v)
    /\ last = [called |-> TRUE, fast |-> TRUE, venv |-> "skipped",
               phase1 |-> "skipped", phase2 |-> "skipped", wrote |-> FALSE,
               result |-> "bin", inputs |-> [manifests |-> m, essentials |-> v],
               again |-> TRUE, unchanged |-> TRUE, prevStamped |-> TRUE,
               prevResult |-> "bin"]
    /\ broken = FALSE

\* a workspace just synced: no venv, no fingerprint, no call yet
Unprovisioned(m, v) ==
    /\ manifests = m
    /\ essentials = v
    /\ python_bin = FALSE
    /\ stamp = NoStamp
    /\ last = NoCall
    /\ broken = FALSE

\* ------------------------------------------------- subprocess environment
\* a key a dict does not hold
Missing == "<missing>"

EnvNames ==
    {"BACKEND_URL", "API_BASE_URL", "FRONTEND_URL", "TEST_LOGIN_EMAIL",
     "TEST_LOGIN_PASSWORD", "TEST_AUTH_TOKEN", "ACCESS_TOKEN", "AUTHORIZATION",
     "DATABASE_URL"}

EmptyDict == [n \in EnvNames |-> Missing]

\* values that start with http:// or https://
HttpUrls ==
    {"http://localhost:8000", "http://127.0.0.1:5432", "http://localhost",
     "http://localhost:9000", "http://host.docker.internal:8000",
     "http://host.docker.internal:5432"}

\* _LOCALHOST_RE needs a port after localhost or 127.0.0.1
FixHostUrl(is_docker, url) ==
    IF ~is_docker \/ url \notin HttpUrls
    THEN url
    ELSE CASE url = "http://localhost:8000" -> "http://host.docker.internal:8000"
           [] url = "http://localhost:9000" -> "http://host.docker.internal:9000"
           [] url = "http://127.0.0.1:5432" -> "http://host.docker.internal:5432"
           [] OTHER -> url

\* `if key not in env_vars: env_vars[key] = value`
SetDefault(env_vars, key, value) ==
    IF env_vars[key] = Missing THEN [env_vars EXCEPT ![key] = value] ELSE env_vars

\* the credentials, the base URLs and the token of the login endpoint, added to
\* the configured variables
InjectCredentials(c) ==
    LET email == c.test_login_email
        password == c.test_login_password
        backend_url == FixHostUrl(c.is_docker, c.backend_url)
        frontend_url == FixHostUrl(c.is_docker, c.frontend_url)
        e1 == IF email # "" THEN SetDefault(c.env_vars, "TEST_LOGIN_EMAIL", email)
              ELSE c.env_vars
        e2 == IF password # "" THEN SetDefault(e1, "TEST_LOGIN_PASSWORD", password)
              ELSE e1
        e3 == IF backend_url # ""
              THEN SetDefault(SetDefault(e2, "BACKEND_URL", backend_url),
                              "API_BASE_URL", backend_url)
              ELSE e2
        e4 == IF c.frontend_url # "" THEN SetDefault(e3, "FRONTEND_URL", frontend_url)
              ELSE e3
        asked == /\ email # "" /\ password # "" /\ backend_url # ""
                 /\ e4["TEST_AUTH_TOKEN"] = Missing
    IN  IF asked /\ c.token # Missing
        THEN [e4 EXCEPT !["TEST_AUTH_TOKEN"] = c.token, !["ACCESS_TOKEN"] = c.token,
                        !["AUTHORIZATION"] = "Bearer jwt"]
        ELSE e4

\* the KEY=value lines of .env, .env.local and .env.test in this order, each
\* already split at the first "=" and stripped
RECURSIVE LoadDotenv(_, _, _)
LoadDotenv(is_docker, lines, env_vars) ==
    IF lines = <<>>
    THEN env_vars
    ELSE LoadDotenv(is_docker, Tail(lines),
                    SetDefault(env_vars, Head(lines).key,
                               FixHostUrl(is_docker, Head(lines).val)))

\* {**os.environ, **env_vars}
ProcEnv(c) ==
    LET injected == InjectCredentials(c)
        env_vars == IF c.is_workspace
                    THEN LoadDotenv(c.is_docker, c.dotenv, injected)
                    ELSE injected
    IN  [n \in EnvNames |-> IF env_vars[n] # Missing THEN env_vars[n] ELSE c.environ[n]]

\* dicts that hold the given value under some of the given names
Dicts(names, value) ==
    {[n \in EnvNames |-> IF n \in held THEN value ELSE Missing] : held \in SUBSET names}

DotenvLines ==
    [key : {"BACKEND_URL", "DATABASE_URL"},
     val : {"http://127.0.0.1:5432", "postgres://localhost:5432"}]

DotenvFiles == UNION {[1..n -> DotenvLines] : n \in 0..MaxLines}

\* a project without a ProjectConfig row behaves as one whose row is empty
Configs ==
    [env_vars : Dicts({"BACKEND_URL", "TEST_AUTH_TOKEN", "ACCESS_TOKEN", "DATABASE_URL"},
                      "http://localhost:9000"),
     test_login_email : {"", "qa@example.com"},
     test_login_password : {"secret"},
     backend_url : {"", "http://localhost:8000"},
     frontend_url : {""},
     token : {Missing, "jwt"},
     dotenv : DotenvFiles,
     environ : Dicts({"BACKEND_URL"}, "http://inherited:1"),
     is_docker : BOOLEAN,
     is_workspace : BOOLEAN]

NoProcEnv == [built |-> FALSE, vars |-> EmptyDict]

\* the environment is not looked at
NoEnv ==
    /\ config = [env_vars |-> EmptyDict, test_login_email |-> "",
                 test_login_password |-> "secret", backend_url |-> "",
                 frontend_url |-> "", token |-> Missing, dotenv |-> <<>>,
                 environ |-> EmptyDict, is_docker |-> FALSE, is_workspace |-> FALSE]
    /\ proc_env = NoProcEnv


\* _execute from the load of the configuration to proc_env
BuildProcEnv ==
    /\ ~proc_env.built
    /\ proc_env' = [built |-> TRUE, vars |-> ProcEnv(config)]
    /\ UNCHANGED config

\* ---------------------------------------------------------- runner detection
\* files a project may hold, by directory relative to the root
ProjectFiles ==
    {[dir |-> ".", name |-> "playwright.config.ts"],
     [dir |-> "e2e", name |-> "playwright.config.js"],
     [dir |-> "web/ui", name |-> "playwright.config.mjs"],
     [dir |-> "a/b/c/d", name |-> "playwright.config.ts"],
     [dir |-> ".", name |-> "pytest.ini"],
     [dir |-> "backend", name |-> "requirements.txt"],
     [dir |-> ".", name |-> "package.json"]}

playwright_configs ==
    {"playwright.config.ts", "playwright.config.js", "playwright.config.mjs"}

\* the root and the common subdirectories, in the order they are searched; none of
\* ProjectFiles lies in a directory of the second level (e2e/tests, frontend/e2e...)
search_dirs ==
    <<".", "e2e", "tests", "tests/e2e", "playwright", "e2e/tests", "frontend", "app",
      "apps/web", "packages/e2e">>

pytest_cfgs ==
    {"pyproject.toml", "setup.cfg", "pytest.ini", "setup.py", "conftest.py",
     "requirements.txt"}

pytest_search == <<".", "backend", "api", "server", "src", "app", "lib", "tests">>

\* len(path.relative_to(base).parts) of a file in the directory
Parts(dir) ==
    CASE dir = "." -> 1
      [] dir \in {"e2e", "backend"} -> 2
      [] dir = "web/ui" -> 3
      [] dir = "a/b/c/d" -> 5

\* a path is held as its words, the pieces between white space: a path without
\* a space is one word
VenvDirs ==
    {<<"/app/workspace/p/.testforge_venv/bin">>,
     <<"/srv/test", "forge/workspace/p/.testforge_venv/bin">>}

\* venv_bin / "pytest"
VenvPytest(dir) ==
    IF dir = <<"/app/workspace/p/.testforge_venv/bin">>
    THEN <<"/app/workspace/p/.testforge_venv/bin/pytest">>
    ELSE <<"/srv/test", "forge/workspace/p/.testforge_venv/bin/pytest">>

NoVenv == [given |-> FALSE, dir |-> <<>>, pytest |-> FALSE]

\* a project directory, the tools on PATH and the arguments of the call; retries,
\* the timeout and the browser are left at their defaults
Projects ==
    LET Tools == [npx : BOOLEAN, npm : BOOLEAN, which_pytest : BOOLEAN,
                  venv_bin : {NoVenv} \cup [given : {TRUE}, dir : VenvDirs,
                                            pytest : BOOLEAN],
                  parallel_workers : 1..MaxWorkers]
        Dirs == [root : {"dir"}, files : SUBSET ProjectFiles, test_script : BOOLEAN]
                \cup [root : {"missing", "file", "unreadable"}, files : {{}},
                      test_script : {FALSE}]
    IN  {[root |-> d.root, files |-> d.files, test_script |-> d.test_script,
          npx |-> t.npx, npm |-> t.npm, which_pytest |-> t.which_pytest,
          venv_bin |-> t.venv_bin, parallel_workers |-> t.parallel_workers] :
            d \in Dirs, t \in Tools}

NoRunner == [found |-> FALSE, layer |-> "", cmd |-> <<>>, cwd |-> ""]

Runner(layer, cmd, cwd) == [found |-> TRUE, layer |-> layer, cmd |-> cmd, cwd |-> cwd]

\* the first directory of the list that holds one of the names
RECURSIVE FirstDir(_, _, _)
FirstDir(p, dirs, names) ==
    IF dirs = <<>>
    THEN ""
    ELSE IF \E f \in p.files : f.dir = Head(dirs) /\ f.name \in names
         THEN Head(dirs)
         ELSE FirstDir(p, Tail(dirs), names)

PlaywrightCmd(p) ==
    <<"/usr/bin/npx", "playwright", "test", "--reporter=json",
      "--screenshot=only-on-failure", "--output=/app/screenshots/pw-results">>
    \o (IF p.parallel_workers > 1 THEN <<"--workers=N">> ELSE <<>>)

\* the configs base.rglob finds at most four parts below the root
Globbed(p) == {f \in p.files : f.name \in playwright_configs /\ Parts(f.dir) <= 4}

\* Playwright, when npx is on PATH
Playwright(p) ==
    IF ~p.npx
    THEN NoRunner
    ELSE IF FirstDir(p, search_dirs, playwright_configs) # ""
         THEN Runner("frontend", PlaywrightCmd(p),
                     FirstDir(p, search_dirs, playwright_configs))
         ELSE IF Globbed(p) # {}
              THEN Runner("frontend", PlaywrightCmd(p), (CHOOSE f \in Globbed(p) : TRUE).dir)
              ELSE NoRunner

\* the words of pytest_bin
PytestBin(p) ==
    IF p.venv_bin.given /\ p.venv_bin.pytest
    THEN VenvPytest(p.venv_bin.dir)
    ELSE IF p.which_pytest
         THEN <<"/usr/bin/pytest">>
         ELSE <<"/usr/local/bin/python3", "-m", "pytest">>

\* [pytest_bin] + flags, or pytest_bin.split() + flags when it holds a space
PytestCmd(p) ==
    PytestBin(p)
    \o <<"--json-report", "--json-report-file=.testforge_report.json", "-v", "-p",
         "no:base_url">>
    \o (IF p.parallel_workers > 1 THEN <<"-n", "N">> ELSE <<>>)

Pytest(p) ==
    IF FirstDir(p, pytest_search, pytest_cfgs) # ""
    THEN Runner("backend", PytestCmd(p), FirstDir(p, pytest_search, pytest_cfgs))
    ELSE NoRunner

\* the test script of package.json, when npm is on PATH
NpmTest(p) ==
    IF /\ p.npm
       /\ [dir |-> ".", name |-> "package.json"] \in p.files
       /\ p.test_script
    THEN Runner("frontend", <<"/usr/bin/npm", "run", "test", "--", "--reporter=json">>, ".")
    ELSE NoRunner

Raised(message) ==
    [raised |-> TRUE, message |-> message, layer |-> "", cmd |-> <<>>, cwd |-> ""]

Returned(runner) ==
    [raised |-> FALSE, message |-> "", layer |-> runner.layer, cmd |-> runner.cmd,
     cwd |-> runner.cwd]

\* a detection that looks for pytest before Playwright
DetectedPytestFirst(p) ==
    CASE p.root = "missing" -> Raised("Project path does not exist or is not accessible")
      [] p.root = "file" -> Raised("Project path is not a directory")
      [] p.root = "unreadable" -> Raised("Cannot read project directory")
      [] OTHER ->
            IF Pytest(p).found THEN Returned(Pytest(p))
            ELSE IF Playwright(p).found THEN Returned(Playwright(p))
            ELSE IF NpmTest(p).found THEN Returned(NpmTest(p))
            ELSE Raised("Could not detect test runner")

\* _detect_runner
Detected(p) ==
    CASE p.root = "missing" -> Raised("Project path does not exist or is not accessible")
      [] p.root = "file" -> Raised("Project path is not a directory")
      [] p.root = "unreadable" -> Raised("Cannot read project directory")
      [] OTHER ->
            IF Playwright(p).found THEN Returned(Playwright(p))
            ELSE IF Pytest(p).found THEN Returned(Pytest(p))
            ELSE IF NpmTest(p).found THEN Returned(NpmTest(p))
            ELSE Raised("Could not detect test runner")

NotDetected == [done |-> FALSE, result |-> Raised("")]

\* no detection is looked at
NoDetect ==
    /\ project = [root |-> "dir", files |-> {}, test_script |-> FALSE, npx |-> FALSE,
                  npm |-> FALSE, which_pytest |-> FALSE, venv_bin |-> NoVenv,
                  parallel_workers |-> 1]
    /\ detected = NotDetected

\* a call of _detect_runner
Detect ==
    /\ ~detected.done
    /\ detected' = [done |-> TRUE, result |-> Detected(project)]
    /\ UNCHANGED project

\* ------------------------------------------------- accepted generated tests
\* test_code: Python that compiles, Python with a syntax error, TypeScript that the
\* first lines give away (a // comment, import {, import type, from '@...'), and
\* TypeScript that they do not
TestCodes == {"python", "python_syntax_error", "typescript", "typescript_plain"}

TestRecords == [test_code : TestCodes, test_type : {"api", "e2e"}]

AcceptedTests == UNION {[1..n -> TestRecords] : n \in 0..MaxAccepted}

IsPythonTestCode(code) == code # "typescript"

\* compile(test.test_code, "<generated>", "exec") raises no SyntaxError
Compiles(code) == code = "python"

\* the record goes to ts_skipped
TsSkippedRecord(test) ==
    ~IsPythonTestCode(test.test_code) /\ test.test_type \notin {"e2e", "component"}

\* the records of ts_skipped, by their position in the query result
RECURSIVE TsSkipped(_, _)
TsSkipped(tests, i) ==
    IF i > Len(tests)
    THEN <<>>
    ELSE (IF TsSkippedRecord(tests[i]) THEN <<i>> ELSE <<>>) \o TsSkipped(tests, i + 1)

\* no accepted record
NoGen ==
    /\ accepted = <<>>
    /\ ts_skipped = [r \in AllRuns |-> <<>>]
    /\ wroteTests = [r \in AllRuns |-> FALSE]

\* ------------------------------------------------------ test generator agent
NoFeedback == "<None>"

NoTestsFeedback == "No tests were generated. Please try again."

\* answers of the provider, <fence> standing for a line of three backquotes: to the
\* generation prompt a text with or without a code block, to the review prompt an
\* approval or a list of issues
RoundAnswers ==
    [generation : {"<fence>typescript test_foo <fence>", "I cannot help with that."},
     review : {"APPROVED", "Missing assertion, please fix."}]

Oracles == [1..(MaxIterations + 1) -> RoundAnswers]

\* _extract_code_blocks
ExtractCodeBlocks(text) ==
    IF text = "<fence>typescript test_foo <fence>" THEN <<"test_foo">> ELSE <<>>

\* "approved" in text.lower()
ContainsApproved(text) == text = "APPROVED"

IdleAgent ==
    [pc |-> "idle", max_iterations |-> 0, iteration |-> 0, is_complete |-> FALSE,
     generated_tests |-> <<>>, review_feedback |-> NoFeedback, rounds |-> 0,
     iterations |-> 0]

\* no generation is looked at
NoAgent ==
    /\ oracle = [i \in 1..(MaxIterations + 1) |->
                    [generation |-> "I cannot help with that.", review |-> "APPROVED"]]
    /\ agent = IdleAgent

\* a loop that goes round once more
ContinueOnceMore == ~agent.is_complete /\ agent.iteration <= agent.max_iterations

\* the condition of the while loop
Continue == ~agent.is_complete /\ agent.iteration < agent.max_iterations

\* the loop test, and the return when it fails
While ==
    /\ agent.pc = "while"
    /\ agent' = IF Continue
                THEN [agent EXCEPT !.pc = "retrieve"]
                ELSE [agent EXCEPT !.pc = "returned", !.iterations = agent.iteration]
    /\ UNCHANGED oracle

\* _retrieve_context: a round begins
RetrieveContext ==
    /\ agent.pc = "retrieve"
    /\ agent' = [agent EXCEPT !.pc = "generate", !.rounds = @ + 1]
    /\ UNCHANGED oracle

\* _generate_tests
GenerateTests ==
    /\ agent.pc = "generate"
    /\ agent' = [agent EXCEPT
          !.pc = "review",
          !.generated_tests = ExtractCodeBlocks(oracle[agent.rounds].generation)]
    /\ UNCHANGED oracle

\* _review_tests
ReviewTests ==
    /\ agent.pc = "review"
    /\ agent' = [agent EXCEPT
          !.pc = "check",
          !.review_feedback =
              IF agent.generated_tests = <<>> THEN NoTestsFeedback
              ELSE IF ContainsApproved(oracle[agent.rounds].review) THEN NoFeedback
              ELSE oracle[agent.rounds].review]
    /\ UNCHANGED oracle

\* the end of the loop body
CheckReview ==
    /\ agent.pc = "check"
    /\ agent' = [agent EXCEPT
          !.pc = "while",
          !.iteration = @ + 1,
          !.is_complete = \/ agent.review_feedback = NoFeedback
                          \/ ContainsApproved(agent.review_feedback)]
    /\ UNCHANGED oracle

\* ------------------------------------------------------------------ scan jobs
ScanJobStatus == {"pending", "scanning", "generating", "completed", "failed"}

\* the statuses start_scan and the recovery take for a scan in progress
ActiveScan == {"pending", "scanning", "generating"}

MsgScanRestart == "Server restarted during scan"

ScanJob(st, msg) == [status |-> st, error_message |-> msg]

\* the jobs of the project that are in progress
ActiveJobs(jobs) == {j \in DOMAIN jobs : jobs[j].status \in ActiveScan}

\* the UPDATE of scan_jobs in _recover_orphaned_jobs
RecoveredScans(jobs) ==
    [j \in DOMAIN jobs |->
        IF jobs[j].status \in ActiveScan THEN ScanJob("failed", MsgScanRestart)
        ELSE jobs[j]]

\* what a previous process lifetime can have left in scan_jobs for the project
PersistedScans ==
    {<<>>} \cup {<<ScanJob(st, "")>> : st \in ScanJobStatus}

ScanRequests == 1..MaxScanRequests

IdleRequest == [pc |-> "idle", response |-> 0]

\* no scan is looked at
NoScan ==
    /\ scan_jobs = <<>>
    /\ scan_reqs = [q \in ScanRequests |-> IdleRequest]

\* start_scan up to the SELECT of an active job: 409 when there is one
StartScanCheck(q) ==
    /\ phase = "serving"
    /\ scan_reqs[q].pc = "idle"
    /\ scan_reqs' = [scan_reqs EXCEPT ![q] =
          IF ActiveJobs(scan_jobs) # {}
          THEN [pc |-> "done", response |-> 409]
          ELSE [pc |-> "insert", response |-> 0]]
    /\ UNCHANGED scan_jobs

\* start_scan from db.add(job) on: the row is committed as pending, the scan task
\* is created, 202
StartScanInsert(q) ==
    /\ scan_reqs[q].pc = "insert"
    /\ scan_jobs' = Append(scan_jobs, ScanJob("pending", ""))
    /\ scan_reqs' = [scan_reqs EXCEPT ![q] = [pc |-> "done", response |-> 202]]

\* _run_scan: the next status of the job, or its failure
RunScan(j) ==
    /\ phase = "serving"
    /\ j \in ActiveJobs(scan_jobs)
    /\ \E failed \in BOOLEAN :
          scan_jobs' = [scan_jobs EXCEPT ![j] =
              IF failed THEN ScanJob("failed", "exception")
              ELSE [@ EXCEPT !.status =
                       CASE @ = "pending" -> "scanning"
                         [] @ = "scanning" -> "generating"
                         [] @ = "generating" -> "completed"]]
    /\ UNCHANGED scan_reqs

\* ------------------------------------------------------------------- Init
\* the components modelled by themselves are not looked at
NoAux == NoEnv /\ NoDetect /\ NoGen /\ NoAgent /\ NoScan

Absent == [status |-> NoRow, counts |-> ZeroCounts, msg |-> NoMessage, results |-> <<>>]

\* rows a previous process lifetime can have left in test_runs
Persisted ==
    {Absent,
     [Absent EXCEPT !.status = PENDING],
     [Absent EXCEPT !.status = RUNNING],
     [Absent EXCEPT !.status = CANCELLED],
     [Absent EXCEPT !.status = FAILED, !.msg = MsgTimeout],
     [status |-> FAILED, counts |-> Summary(<<FAILED>>), msg |-> NoMessage,
      results |-> <<FAILED>>],
     [status |-> PASSED, counts |-> Summary(<<PASSED>>), msg |-> NoMessage,
      results |-> <<PASSED>>]}

\* the tables as given, an empty registry, no request in flight
Fresh(rows) ==
    /\ status = [r \in AllRuns |-> rows[r].status]
    /\ counts = [r \in AllRuns |-> rows[r].counts]
    /\ error_message = [r \in AllRuns |-> rows[r].msg]
    /\ results = [r \in AllRuns |-> rows[r].results]
    /\ before = rows
    /\ parsed = [r \in AllRuns |-> <<>>]
    /\ ended = [r \in AllRuns |-> ""]
    /\ exitcode = [r \in AllRuns |-> 0]
    /\ kills = [r \in AllRuns |-> 0]
    /\ stops = [r \in AllRuns |-> [issued |-> 0, kill |-> 0, commit |-> 0]]
    /\ starts = [r \in AllRuns |-> [issued |-> 0, commit |-> 0]]
    /\ patches = [r \in AllRuns |-> 0]
    /\ removes = [r \in AllRuns |-> 0]
    /\ earlyStop = [r \in AllRuns |-> FALSE]
    /\ cancelledLive = [r \in AllRuns |-> FALSE]
    /\ reported = [r \in AllRuns |-> <<>>]
    /\ synthetic = [r \in AllRuns |-> NoOutcome]

\* a process has just started: nothing in memory, the tables as the last one left them
Init ==
    /\ phase = "startup"
    /\ NoAux
    /\ \E rows \in [Runs -> Persisted] :
          Fresh([r \in AllRuns |-> IF r \in Runs THEN rows[r] ELSE Absent])
    /\ pc = [r \in AllRuns |-> "idle"]
    /\ sess = [r \in AllRuns |-> [status |-> NoRow, counts |-> ZeroCounts]]
    /\ registry = {}
    /\ proc = [r \in AllRuns |-> "none"]
    /\ Provisioned([root |-> File(<<"flask">>), backend |-> NoFile], "v2")
    /\ output = [r \in AllRuns |-> [stdout |-> NoText, stderr |-> "text on stderr"]]

\* ---------------------------------------------------------------- variants
\* a recovery that forgets the runs still PENDING
RecoverRunningOnly ==
    /\ phase = "startup"
    /\ phase' = "serving"
    /\ status' = [r \in AllRuns |-> IF status[r] = RUNNING THEN FAILED ELSE status[r]]
    /\ error_message' = [r \in AllRuns |->
                    IF status[r] = RUNNING THEN MsgRestart ELSE error_message[r]]
    /\ scan_jobs' = RecoveredScans(scan_jobs)
    /\ UNCHANGED <<soloVars, genVars, scan_reqs, wsVars, ioVars, counts, results,
                   taskVars, registry, procVars, reqVars, histVars>>

\* ---------------------------------------------------------------- startup
\* main.py _recover_orphaned_jobs, awaited by lifespan before the app serves
RecoverOrphanedJobs ==
    /\ phase = "startup"
    /\ phase' = "serving"
    /\ status' = [r \in AllRuns |->
                    IF status[r] \in {PENDING, RUNNING} THEN FAILED ELSE status[r]]
    /\ error_message' = [r \in AllRuns |->
                    IF status[r] \in {PENDING, RUNNING} THEN MsgRestart
                    ELSE error_message[r]]
    /\ scan_jobs' = RecoveredScans(scan_jobs)
    /\ UNCHANGED <<soloVars, genVars, scan_reqs, wsVars, ioVars, counts, results,
                   taskVars, registry, procVars, reqVars, histVars>>

\* ------------------------------------------------------------ run endpoints
\* test_runs.py create_test_run: insert the row as PENDING, schedule the engine task
CreateTestRun(r) ==
    /\ phase = "serving"
    /\ status[r] = NoRow
    /\ status' = [status EXCEPT ![r] = PENDING]
    /\ pc' = [pc EXCEPT ![r] = "read_run"]
    /\ UNCHANGED <<auxVars, wsVars, ioVars, phase, counts, error_message, results, sess, parsed, ended,
                   registry, procVars, reqVars, histVars>>

\* test_runs.py start_test_run: the SELECT and the status check
StartRead(r) ==
    /\ phase = "serving"
    /\ status[r] # NoRow
    /\ starts[r].issued < MaxStarts
    /\ starts' = [starts EXCEPT ![r] =
                    [issued |-> @.issued + 1,
                     commit |-> IF status[r] = PENDING THEN @.commit + 1 ELSE @.commit]]
    /\ UNCHANGED <<auxVars, wsVars, ioVars, phase, dbVars, taskVars, registry, procVars, stops, patches,
                   histVars>>

\* test_runs.py start_test_run: status = RUNNING, commit
StartCommit(r) ==
    /\ starts[r].commit > 0
    /\ starts' = [starts EXCEPT ![r].commit = @ - 1]
    /\ status' = [status EXCEPT ![r] = RUNNING]
    /\ UNCHANGED <<auxVars, wsVars, ioVars, phase, counts, error_message, results, taskVars, registry,
                   procVars, stops, patches, histVars>>

\* test_runs.py stop_test_run: the SELECT and the status check
StopRead(r) ==
    /\ phase = "serving"
    /\ status[r] # NoRow
    /\ stops[r].issued < MaxStops
    /\ stops' = [stops EXCEPT ![r] =
                    [issued |-> @.issued + 1,
                     kill |-> IF status[r] = RUNNING THEN @.kill + 1 ELSE @.kill,
                     commit |-> @.commit]]
    /\ earlyStop' = [earlyStop EXCEPT ![r] = @ \/ proc[r] \in {"none", "alive"}]
    /\ UNCHANGED <<auxVars, wsVars, ioVars, phase, dbVars, taskVars, registry, procVars, starts, patches,
                   removes, before, cancelledLive>>

\* a cancel_run that does not look at returncode
CancelRunAnyHandle(r) == r \in registry

\* engine.py cancel_run: the process is registered and its exit has not been seen
CancelRun(r) == r \in registry /\ ReturncodeIsNone(r)

\* proc.kill(): SIGKILL ends a live process; a dead one stays as it is
Kill(r) ==
    /\ kills' = [kills EXCEPT ![r] = @ + 1]
    /\ proc' = [proc EXCEPT ![r] = IF @ = "alive" THEN "dead" ELSE @]
    /\ exitcode' = [exitcode EXCEPT ![r] = IF proc[r] = "alive" THEN KilledCode ELSE @]

\* test_runs.py stop_test_run: cancel_run(run_id), whose result is not looked at
StopKill(r) ==
    /\ stops[r].kill > 0
    /\ stops' = [stops EXCEPT ![r] =
                    [issued |-> @.issued, kill |-> @.kill - 1, commit |-> @.commit + 1]]
    /\ IF CancelRun(r) THEN Kill(r) ELSE UNCHANGED procVars
    /\ UNCHANGED <<auxVars, wsVars, ioVars, phase, dbVars, taskVars, registry, starts, patches, histVars>>

\* a stop request that also resets the aggregate counts
StopCommitResetsCounts(r) ==
    /\ stops[r].commit > 0
    /\ stops' = [stops EXCEPT ![r].commit = @ - 1]
    /\ status' = [status EXCEPT ![r] = CANCELLED]
    /\ counts' = [counts EXCEPT ![r] = ZeroCounts]
    /\ cancelledLive' = [cancelledLive EXCEPT ![r] =
                            @ \/ proc[r] = "alive" \/ pc[r] = "drain"]
    /\ UNCHANGED <<auxVars, wsVars, ioVars, phase, error_message, results, taskVars, registry,
                   procVars, starts, patches, removes, before, earlyStop>>

\* test_runs.py stop_test_run: status = CANCELLED, commit
StopCommit(r) ==
    /\ stops[r].commit > 0
    /\ stops' = [stops EXCEPT ![r].commit = @ - 1]
    /\ status' = [status EXCEPT ![r] = CANCELLED]
    /\ cancelledLive' = [cancelledLive EXCEPT ![r] =
                            @ \/ proc[r] = "alive" \/ pc[r] = "drain"]
    /\ UNCHANGED <<auxVars, wsVars, ioVars, phase, counts, error_message, results, taskVars, registry,
                   procVars, starts, patches, removes, before, earlyStop>>

\* request bodies of PATCH: a field is set or left out (counts: a list of no or
\* one value)
Unset == "unset"
PatchBodies ==
    [status : TestRunStatus \cup {Unset},
     counts : {<<>>, <<ZeroCounts>>, <<Summary(<<PASSED, FAILED>>)>>}]

\* test_runs.py update_test_run: setattr for every field of the body, commit
UpdateTestRun(r, body) ==
    /\ phase = "serving"
    /\ status[r] # NoRow
    /\ patches[r] < MaxPatches
    /\ patches' = [patches EXCEPT ![r] = @ + 1]
    /\ status' = [status EXCEPT ![r] = IF body.status = Unset THEN @ ELSE body.status]
    /\ counts' = [counts EXCEPT ![r] = IF body.counts = <<>> THEN @ ELSE body.counts[1]]
    /\ UNCHANGED <<auxVars, wsVars, ioVars, phase, error_message, results, taskVars, registry, procVars,
                   stops, starts, histVars>>

\* ------------------------------------------------------------- engine task
\* a failure branch of _execute: status = FAILED, error_message, commit, return
Fail(r, msg) ==
    /\ status' = [status EXCEPT ![r] = Flush(@, sess[r].status, FAILED)]
    /\ error_message' = [error_message EXCEPT ![r] = msg]
    /\ pc' = [pc EXCEPT ![r] = "done"]
    /\ ended' = [ended EXCEPT ![r] = "failed"]

\* the task moves on without touching the row
Goto(r, next) ==
    /\ pc' = [pc EXCEPT ![r] = next]
    /\ UNCHANGED <<status, error_message, ended>>

\* engine.py 1350-1355: load the TestRun row into the session
ReadRun(r) ==
    /\ pc[r] = "read_run"
    /\ IF status[r] = NoRow
       THEN /\ pc' = [pc EXCEPT ![r] = "done"]
            /\ ended' = [ended EXCEPT ![r] = "missing"]
            /\ UNCHANGED sess
       ELSE /\ pc' = [pc EXCEPT ![r] = "mark_running"]
            /\ sess' = [sess EXCEPT ![r] = [status |-> status[r], counts |-> counts[r]]]
            /\ UNCHANGED ended
    /\ UNCHANGED <<auxVars, wsVars, ioVars, phase, dbVars, parsed, registry, procVars, reqVars, histVars>>

\* engine.py 1357-1359: status = RUNNING, commit
MarkRunning(r) ==
    /\ pc[r] = "mark_running"
    /\ status' = [status EXCEPT ![r] = Flush(@, sess[r].status, RUNNING)]
    /\ sess' = [sess EXCEPT ![r].status = RUNNING]
    /\ pc' = [pc EXCEPT ![r] = "provision"]
    /\ UNCHANGED <<auxVars, wsVars, ioVars, phase, counts, error_message, results, parsed, ended, registry,
                   procVars, reqVars, histVars>>

\* engine.py 1362-1394: for a synced workspace the .env files are read and
\* _ensure_project_venv is awaited; whatever it returns or raises, the task goes on
Provision(r) ==
    /\ pc[r] = "provision"
    /\ Goto(r, "detect")
    /\ \E is_workspace \in BOOLEAN :
          IF is_workspace
          THEN \E o \in Outcomes : EnsureProjectVenv(o)
          ELSE UNCHANGED wsVars
    /\ UNCHANGED <<auxVars, ioVars, phase, counts, results, sess, parsed, registry, procVars, reqVars,
                   histVars>>

\* engine.py 1396-1413: _detect_runner; its RuntimeError fails the run
DetectRunner(r) ==
    /\ pc[r] = "detect"
    /\ Fail(r, MsgDetect) \/ Goto(r, "preflight")
    /\ UNCHANGED <<auxVars, wsVars, ioVars, phase, counts, results, sess, parsed, registry, procVars, reqVars,
                   histVars>>

\* engine.py 1418-1444: the executable and the working directory must exist
Preflight(r) ==
    /\ pc[r] = "preflight"
    /\ Fail(r, MsgExecutable) \/ Fail(r, MsgCwd) \/ Goto(r, "write_tests")
    /\ UNCHANGED <<auxVars, wsVars, ioVars, phase, counts, results, sess, parsed, registry, procVars, reqVars,
                   histVars>>

\* engine.py 1458-1479: _write_accepted_tests_to_workspace is awaited outside any
\* try block, so an OSError of its mkdir / write_text calls (985-1009) leaves
\* _execute and run_tests_for_project (863-866) with the row untouched
WriteAcceptedTests(r) ==
    /\ pc[r] = "write_tests"
    /\ \/ /\ pc' = [pc EXCEPT ![r] = "guard"]
          /\ \E backend_workspace \in BOOLEAN :
                LET materialized == backend_workspace /\ accepted # <<>>
                IN  /\ wroteTests' = [wroteTests EXCEPT ![r] = materialized]
                    /\ ts_skipped' = [ts_skipped EXCEPT ![r] =
                          IF materialized THEN TsSkipped(accepted, 1) ELSE <<>>]
          /\ UNCHANGED ended
       \/ /\ pc' = [pc EXCEPT ![r] = "done"]
          /\ ended' = [ended EXCEPT ![r] = "raised"]
          /\ UNCHANGED <<ts_skipped, wroteTests>>
    /\ UNCHANGED <<soloVars, scanVars, accepted, wsVars, ioVars, phase, dbVars, sess, parsed, registry, procVars, reqVars, histVars>>

\* a guard that admits one run too many
FullOffByOne == Cardinality(registry) > MAX_CONCURRENT_RUNS

\* engine.py 1482: the concurrency guard's test
Full == Cardinality(registry) >= MAX_CONCURRENT_RUNS

\* engine.py 1481-1490: reject when the registry is full, else go on to launch
ConcurrencyGuard(r) ==
    /\ pc[r] = "guard"
    /\ IF Full THEN Fail(r, MsgTooMany) ELSE Goto(r, "spawn")
    /\ UNCHANGED <<auxVars, wsVars, ioVars, phase, counts, results, sess, parsed, registry, procVars, reqVars,
                   histVars>>

\* engine.py 1511-1518, 1546-1557: create_subprocess_exec starts the process or raises
Spawn(r) ==
    /\ pc[r] = "spawn"
    /\ \/ proc' = [proc EXCEPT ![r] = "alive"] /\ Goto(r, "register")
       \/ Fail(r, MsgStart) /\ UNCHANGED proc
    /\ UNCHANGED <<auxVars, wsVars, ioVars, phase, counts, results, sess, parsed, registry, exitcode, kills,
                   reqVars, histVars>>

\* engine.py 1519-1527: _running_processes[run_id] = proc, start draining
Register(r) ==
    /\ pc[r] = "register"
    /\ registry' = registry \cup {r}
    /\ Goto(r, "drain")
    /\ UNCHANGED <<auxVars, wsVars, ioVars, phase, counts, results, sess, parsed, procVars, reqVars, histVars>>

\* the finally clause at engine.py 1556-1557
Pop(r) ==
    /\ registry' = registry \ {r}
    /\ removes' = [removes EXCEPT ![r] = IF r \in registry THEN @ + 1 ELSE @]

\* the subprocess ends by itself with some exit status
ProcExit(r) ==
    /\ proc[r] = "alive"
    /\ proc' = [proc EXCEPT ![r] = "dead"]
    /\ \E code \in {0, 1} : exitcode' = [exitcode EXCEPT ![r] = code]
    /\ UNCHANGED <<auxVars, wsVars, ioVars, phase, dbVars, taskVars, registry, kills, reqVars, histVars>>

\* the event loop observes the exit: proc.returncode is set
Reap(r) ==
    /\ proc[r] = "dead"
    /\ proc' = [proc EXCEPT ![r] = "reaped"]
    /\ UNCHANGED <<auxVars, wsVars, ioVars, phase, dbVars, taskVars, registry, exitcode, kills, reqVars,
                   histVars>>

\* engine.py 1527: both pipes reached end of file
DrainDone(r) ==
    /\ pc[r] = "drain"
    /\ proc[r] \in {"dead", "reaped"}
    /\ Goto(r, "wait")
    /\ UNCHANGED <<auxVars, wsVars, ioVars, phase, counts, results, sess, parsed, registry, procVars, reqVars,
                   histVars>>

\* engine.py 1528-1539: the 300 s limit passes before both drain tasks are done.
\* When the exit has been observed already, proc.kill() does nothing while a
\* pipe is still open, and raises ProcessLookupError once the transport has
\* finished, which the handler at 1546-1555 reports as a launch failure
Timeout(r) ==
    /\ pc[r] = "drain"
    /\ IF ReturncodeIsNone(r)
       THEN Kill(r) /\ Fail(r, MsgTimeout)
       ELSE (\E msg \in {MsgTimeout, MsgStart} : Fail(r, msg)) /\ UNCHANGED procVars
    /\ Pop(r)
    /\ UNCHANGED <<auxVars, wsVars, ioVars, phase, counts, results, sess, parsed, reqVars, before, earlyStop,
                   cancelledLive>>

\* a launch block without its finally clause
WaitDoneNoPop(r) ==
    /\ pc[r] = "wait"
    /\ ~ReturncodeIsNone(r)
    /\ Goto(r, "parse")
    /\ UNCHANGED <<auxVars, wsVars, ioVars, phase, counts, results, sess, parsed, registry, procVars, reqVars,
                   histVars>>

\* engine.py 1541-1557: proc.wait() returns, the handle leaves the registry
WaitDone(r) ==
    /\ pc[r] = "wait"
    /\ ~ReturncodeIsNone(r)
    /\ Pop(r)
    /\ Goto(r, "parse")
    /\ UNCHANGED <<auxVars, wsVars, ioVars, phase, counts, results, sess, parsed, procVars, reqVars, before,
                   earlyStop, cancelledLive>>

\* engine.py 1561-1639: parse the report, fall back to one synthetic result
ParseResults(r) ==
    /\ pc[r] = "parse"
    /\ \E report \in Reports :
          /\ parsed' = [parsed EXCEPT ![r] =
                WithFallback(report, exitcode[r])
                \o [i \in 1..Len(ts_skipped[r]) |-> SKIPPED]]
          /\ reported' = [reported EXCEPT ![r] = report]
          /\ synthetic' = [synthetic EXCEPT ![r] =
                IF report = <<>> THEN SyntheticOutcome(exitcode[r], output[r])
                ELSE NoOutcome]
    /\ Goto(r, "refresh")
    /\ UNCHANGED <<auxVars, wsVars, output, phase, counts, results, sess, registry, procVars, reqVars, histVars>>

\* engine.py 1641-1646: re-read the row; a cancelled run is left as it is
Refresh(r) ==
    /\ pc[r] = "refresh"
    /\ sess' = [sess EXCEPT ![r] = [status |-> status[r], counts |-> counts[r]]]
    /\ IF status[r] = CANCELLED
       THEN /\ pc' = [pc EXCEPT ![r] = "done"]
            /\ ended' = [ended EXCEPT ![r] = "cancelled"]
       ELSE /\ pc' = [pc EXCEPT ![r] = "commit"]
            /\ UNCHANGED ended
    /\ UNCHANGED <<auxVars, wsVars, ioVars, phase, dbVars, parsed, registry, procVars, reqVars, histVars>>

\* engine.py 1648-1663: summary, final status and the result rows in one commit
Complete(r) ==
    /\ pc[r] = "commit"
    /\ counts' = [counts EXCEPT ![r] =
          [total |-> Flush(@.total, sess[r].counts.total, Summary(parsed[r]).total),
           passed |-> Flush(@.passed, sess[r].counts.passed, Summary(parsed[r]).passed),
           failed |-> Flush(@.failed, sess[r].counts.failed, Summary(parsed[r]).failed),
           skipped |-> Flush(@.skipped, sess[r].counts.skipped,
                             Summary(parsed[r]).skipped)]]
    /\ status' = [status EXCEPT ![r] = Flush(@, sess[r].status, FinalStatus(parsed[r]))]
    /\ results' = [results EXCEPT ![r] = @ \o parsed[r]]
    /\ pc' = [pc EXCEPT ![r] = "done"]
    /\ ended' = [ended EXCEPT ![r] = "completed"]
    /\ UNCHANGED <<auxVars, wsVars, ioVars, phase, error_message, sess, parsed, registry, procVars, reqVars,
                   histVars>>

\* ------------------------------------------------------------ specification
EngineStep(r) ==
    \/ ReadRun(r) \/ MarkRunning(r) \/ Provision(r) \/ DetectRunner(r)
    \/ Preflight(r) \/ WriteAcceptedTests(r) \/ ConcurrencyGuard(r) \/ Spawn(r)
    \/ Register(r) \/ DrainDone(r) \/ Timeout(r) \/ WaitDone(r)
    \/ ParseResults(r) \/ Refresh(r) \/ Complete(r)

ProcessStep(r) == ProcExit(r) \/ Reap(r)

StopStep(r) == StopRead(r) \/ StopKill(r) \/ StopCommit(r)

StartStep(r) == StartRead(r) \/ StartCommit(r)

Next ==
    \/ RecoverOrphanedJobs
    \/ \E r \in Runs :
          CreateTestRun(r) \/ EngineStep(r) \/ ProcessStep(r) \/ StopStep(r)
          \/ StartStep(r)

Spec == Init /\ [][Next]_vars

\* the run endpoints with PATCH
NextApi == Next \/ \E r \in Runs : \E body \in PatchBodies : UpdateTestRun(r, body)

SpecApi == Init /\ [][NextApi]_vars

\* the engine task is scheduled until it returns, and the event loop sees every exit
Fairness == \A r \in Runs : WF_vars(EngineStep(r)) /\ WF_vars(Reap(r))

FairSpec == Spec /\ Fairness

\* ------------------------------------------------- the guard under load
\* MAX_CONCURRENT_RUNS - 1 runs are draining a subprocess that keeps running, and
\* the other runs have all arrived at the concurrency guard
Held == 1..(MAX_CONCURRENT_RUNS - 1)

InitCap ==
    /\ phase = "serving"
    /\ NoAux
    /\ Fresh([r \in AllRuns |-> [Absent EXCEPT !.status = RUNNING]])
    /\ pc = [r \in AllRuns |-> IF r \in Held THEN "drain" ELSE "guard"]
    /\ sess = [r \in AllRuns |-> [status |-> RUNNING, counts |-> ZeroCounts]]
    /\ registry = Held
    /\ proc = [r \in AllRuns |-> IF r \in Held THEN "alive" ELSE "none"]
    /\ Provisioned([root |-> File(<<"flask">>), backend |-> NoFile], "v2")
    /\ output = [r \in AllRuns |-> [stdout |-> NoText, stderr |-> "text on stderr"]]

NextCap ==
    \E r \in AllRuns \ Held :
        \/ ConcurrencyGuard(r) \/ Spawn(r) \/ Register(r) \/ ProcessStep(r)
        \/ DrainDone(r) \/ Timeout(r) \/ WaitDone(r)

SpecCap == InitCap /\ [][NextCap]_vars

\* ------------------------------------------------- provisioning by itself
\* everything but the workspace
engineVars ==
    <<phase, dbVars, taskVars, registry, procVars, reqVars, histVars, ioVars>>

\* no run yet; the workspace has just been synced with some manifests
InitProv ==
    /\ phase = "serving"
    /\ NoAux
    /\ Fresh([r \in AllRuns |-> Absent])
    /\ pc = [r \in AllRuns |-> "idle"]
    /\ sess = [r \in AllRuns |-> [status |-> NoRow, counts |-> ZeroCounts]]
    /\ registry = {}
    /\ proc = [r \in AllRuns |-> "none"]
    /\ \E m \in Manifests : Unprovisioned(m, "v2")
    /\ output = [r \in AllRuns |-> [stdout |-> NoText, stderr |-> "text on stderr"]]

\* calls of _ensure_project_venv for the project, its files and the engine's
\* essentials changing between them
NextProv ==
    \/ \E o \in Outcomes : EnsureProjectVenv(o) /\ UNCHANGED <<auxVars, engineVars>>
    \/ \E m \in Manifests : EditManifests(m) /\ UNCHANGED <<auxVars, engineVars>>
    \/ \E v \in EssentialsVersions : BumpEssentials(v) /\ UNCHANGED <<auxVars, engineVars>>

SpecProv == InitProv /\ [][NextProv]_vars

\* ------------------------------------------ a first run of a synced project
InitRun ==
    /\ phase = "serving"
    /\ NoAux
    /\ Fresh([r \in AllRuns |-> Absent])
    /\ pc = [r \in AllRuns |-> "idle"]
    /\ sess = [r \in AllRuns |-> [status |-> NoRow, counts |-> ZeroCounts]]
    /\ registry = {}
    /\ proc = [r \in AllRuns |-> "none"]
    /\ \E m \in Manifests : Unprovisioned(m, "v2")
    /\ output = [r \in AllRuns |-> [stdout |-> NoText, stderr |-> "text on stderr"]]

NextRun == \E r \in Runs : CreateTestRun(r) \/ EngineStep(r) \/ ProcessStep(r)

SpecRun == InitRun /\ [][NextRun]_vars

\* ------------------------------------------------- from the drain onwards
\* a run whose subprocess has been launched and registered, with any output
InitNorm ==
    /\ phase = "serving"
    /\ NoAux
    /\ Fresh([r \in AllRuns |->
                IF r \in Runs THEN [Absent EXCEPT !.status = RUNNING] ELSE Absent])
    /\ pc = [r \in AllRuns |-> IF r \in Runs THEN "drain" ELSE "idle"]
    /\ sess = [r \in AllRuns |->
                [status |-> IF r \in Runs THEN RUNNING ELSE NoRow,
                 counts |-> ZeroCounts]]
    /\ registry = Runs
    /\ proc = [r \in AllRuns |-> IF r \in Runs THEN "alive" ELSE "none"]
    /\ Provisioned([root |-> File(<<"flask">>), backend |-> NoFile], "v2")
    /\ \E out \in Outputs :
          output = [r \in AllRuns |->
                      IF r \in Runs THEN out ELSE [stdout |-> NoText, stderr |-> NoText]]

NextNorm ==
    \E r \in Runs :
        \/ ProcessStep(r) \/ StopStep(r)
        \/ DrainDone(r) \/ Timeout(r) \/ WaitDone(r)
        \/ ParseResults(r) \/ Refresh(r) \/ Complete(r)

SpecNorm == InitNorm /\ [][NextNorm]_vars

\* ------------------------------------------- the environment by itself
\* everything but the components modelled by themselves
runVars ==
    <<phase, dbVars, taskVars, registry, procVars, reqVars, histVars, wsVars, ioVars>>

\* no run yet, a provisioned workspace
Quiet ==
    /\ phase = "serving"
    /\ Fresh([r \in AllRuns |-> Absent])
    /\ pc = [r \in AllRuns |-> "idle"]
    /\ sess = [r \in AllRuns |-> [status |-> NoRow, counts |-> ZeroCounts]]
    /\ registry = {}
    /\ proc = [r \in AllRuns |-> "none"]
    /\ Provisioned([root |-> File(<<"flask">>), backend |-> NoFile], "v2")
    /\ output = [r \in AllRuns |-> [stdout |-> NoText, stderr |-> "text on stderr"]]

InitEnv ==
    /\ Quiet
    /\ NoDetect /\ NoGen /\ NoAgent /\ NoScan
    /\ config \in Configs
    /\ proc_env = NoProcEnv

NextEnv == BuildProcEnv /\ UNCHANGED <<runVars, detectVars, genVars, agentVars, scanVars>>

SpecEnv == InitEnv /\ [][NextEnv]_vars

\* ------------------------------------- a run of a project with accepted tests
\* the run has passed the preflight
InitGen ==
    /\ phase = "serving"
    /\ NoEnv /\ NoDetect /\ NoAgent /\ NoScan
    /\ Fresh([r \in AllRuns |->
                IF r \in Runs THEN [Absent EXCEPT !.status = RUNNING] ELSE Absent])
    /\ pc = [r \in AllRuns |-> IF r \in Runs THEN "write_tests" ELSE "idle"]
    /\ sess = [r \in AllRuns |->
                [status |-> IF r \in Runs THEN RUNNING ELSE NoRow,
                 counts |-> ZeroCounts]]
    /\ registry = {}
    /\ proc = [r \in AllRuns |-> "none"]
    /\ Provisioned([root |-> File(<<"flask">>), backend |-> NoFile], "v2")
    /\ output = [r \in AllRuns |-> [stdout |-> NoText, stderr |-> "text on stderr"]]
    /\ accepted \in AcceptedTests
    /\ ts_skipped = [r \in AllRuns |-> <<>>]
    /\ wroteTests = [r \in AllRuns |-> FALSE]

NextGen ==
    \E r \in Runs :
        \/ ProcessStep(r)
        \/ WriteAcceptedTests(r) \/ ConcurrencyGuard(r) \/ Spawn(r)
        \/ Register(r) \/ DrainDone(r) \/ Timeout(r) \/ WaitDone(r)
        \/ ParseResults(r) \/ Refresh(r) \/ Complete(r)

SpecGen == InitGen /\ [][NextGen]_vars

\* ------------------------------------------- the generator agent by itself
InitAgent ==
    /\ Quiet
    /\ NoEnv /\ NoDetect /\ NoGen /\ NoScan
    /\ oracle \in Oracles
    /\ \E max_iterations \in 0..MaxIterations :
          agent = [IdleAgent EXCEPT !.pc = "while", !.max_iterations = max_iterations]

NextAgent ==
    /\ While \/ RetrieveContext \/ GenerateTests \/ ReviewTests \/ CheckReview
    /\ UNCHANGED <<runVars, envVars, detectVars, genVars, scanVars>>

SpecAgent == InitAgent /\ [][NextAgent]_vars

\* ------------------------------------------------ scan jobs by themselves
\* a process lifetime begins with the scan jobs the last one left
InitScan ==
    /\ phase = "startup"
    /\ NoEnv /\ NoDetect /\ NoGen /\ NoAgent
    /\ Fresh([r \in AllRuns |-> Absent])
    /\ pc = [r \in AllRuns |-> "idle"]
    /\ sess = [r \in AllRuns |-> [status |-> NoRow, counts |-> ZeroCounts]]
    /\ registry = {}
    /\ proc = [r \in AllRuns |-> "none"]
    /\ Provisioned([root |-> File(<<"flask">>), backend |-> NoFile], "v2")
    /\ output = [r \in AllRuns |-> [stdout |-> NoText, stderr |-> "text on stderr"]]
    /\ scan_jobs \in PersistedScans
    /\ scan_reqs = [q \in ScanRequests |-> IdleRequest]

scanRest ==
    <<soloVars, genVars, phase, dbVars, taskVars, registry, procVars, reqVars, histVars,
      wsVars, ioVars>>

NextScan ==
    \/ RecoverOrphanedJobs
    \/ \E q \in ScanRequests :
          (StartScanCheck(q) \/ StartScanInsert(q)) /\ UNCHANGED scanRest
    \/ \E j \in DOMAIN scan_jobs : RunScan(j) /\ UNCHANGED scanRest

SpecScan == InitScan /\ [][NextScan]_vars

\* ---------------------------------------------- runner detection by itself
InitDetect ==
    /\ Quiet
    /\ NoEnv /\ NoGen /\ NoAgent /\ NoScan
    /\ project \in Projects
    /\ detected = NotDetected

NextDetect == Detect /\ UNCHANGED <<runVars, envVars, genVars, agentVars, scanVars>>

SpecDetect == InitDetect /\ [][NextDetect]_vars

\* =================================================================== claims

\* C1: terminal statuses are absorbing: once a run's persisted status is passed,
\* failed or cancelled, no step of the engine task, of a stop request or of a
\* start request changes it
C1_TerminalAbsorbing ==
    [][\A r \in Runs : status[r] \in Terminal => status'[r] = status[r]]_vars

\* C2: at every moment at most MAX_CONCURRENT_RUNS test subprocesses are alive
LiveProcesses == {r \in AllRuns : proc[r] = "alive"}
C2_ConcurrencyCap == Cardinality(LiveProcesses) <= MAX_CONCURRENT_RUNS

\* C4: when a stop request has committed CANCELLED while the subprocess was running
\* or being drained, the completion step's re-read leaves the status CANCELLED,
\* ends the task and writes neither counts nor results
C4_CancelWins ==
    [][\A r \in Runs :
          (cancelledLive[r] /\ pc[r] = "refresh" /\ pc'[r] # "refresh")
          => /\ status'[r] = CANCELLED
             /\ ended'[r] = "cancelled"
             /\ counts'[r] = counts[r]
             /\ results'[r] = results[r]]_vars

\* the committed row of a run
Row(r) ==
    [status |-> status[r], counts |-> counts[r], msg |-> error_message[r],
     results |-> results[r]]

\* C3: startup recovery runs before any request or engine task; after it every run
\* found PENDING or RUNNING is FAILED with "Server restarted during run", and every
\* run found in a terminal status keeps its row as it was
C3_StartupRecovery ==
    \A r \in Runs :
        /\ phase = "startup"
           => /\ pc[r] = "idle"
              /\ stops[r].issued = 0 /\ starts[r].issued = 0
              /\ Row(r) = before[r]
        /\ (phase = "serving" /\ before[r].status \in {PENDING, RUNNING})
           => status[r] = FAILED /\ error_message[r] = MsgRestart
        /\ (phase = "serving" /\ before[r].status \in Terminal)
           => Row(r) = before[r]

C3_Witness ==
    \E r \in Runs :
        /\ phase = "serving"
        /\ before[r].status = PENDING
        /\ status[r] = FAILED
        /\ error_message[r] = MsgRestart

\* C5: a run whose stop request arrived only after its subprocess had exited is
\* never CANCELLED, and when its engine task completes it has the status its
\* outcomes determine
C5_LateCancelNoOp ==
    \A r \in Runs :
        (before[r].status = NoRow /\ ~earlyStop[r])
        => /\ status[r] # CANCELLED
           /\ ended[r] = "completed" => status[r] = FinalStatus(parsed[r])

\* C6: a run's subprocess is killed at most once and its registry entry is
\* removed at most once
C6_KillOnceRemoveOnce == \A r \in Runs : kills[r] <= 1 /\ removes[r] <= 1

\* C7: a registry entry always belongs to a launched subprocess whose engine task
\* is still inside the launch block, and once that subprocess has exited or been
\* killed the entry is eventually removed
C7_NoHandleLeak ==
    /\ [](\A r \in Runs :
             r \in registry => proc[r] # "none" /\ pc[r] \in {"drain", "wait"})
    /\ \A r \in Runs : (r \in registry /\ proc[r] # "alive") ~> (r \notin registry)

C7_Witness ==
    \E r \in Runs :
        /\ removes[r] = 1
        /\ r \notin registry
        /\ proc[r] = "reaped"
        /\ pc[r] = "parse"

\* C8: a run that reaches the concurrency guard while the registry holds
\* MAX_CONCURRENT_RUNS entries is failed at once with "Too many concurrent runs",
\* launches no subprocess and leaves the registry as it is
C8_AdmissionRejection ==
    [][\A r \in AllRuns :
          (pc[r] = "guard" /\ pc'[r] # "guard"
           /\ Cardinality(registry) >= MAX_CONCURRENT_RUNS)
          => /\ status'[r] = FAILED
             /\ error_message'[r] = MsgTooMany
             /\ pc'[r] = "done"
             /\ proc'[r] = "none"
             /\ registry' = registry]_vars

C8_Witness ==
    \E r \in AllRuns :
        /\ Cardinality(registry) = MAX_CONCURRENT_RUNS
        /\ r \notin registry
        /\ status[r] = FAILED
        /\ error_message[r] = MsgTooMany
        /\ proc[r] = "none"

\* C9: no exception leaves the engine task, and a task that ended on a failure
\* left the run FAILED with a message
C9_ErrorPropagation ==
    \A r \in Runs :
        /\ ended[r] # "raised"
        /\ ended[r] = "failed" => status[r] = FAILED /\ error_message[r] # NoMessage

LastCallFailed ==
    /\ last.called
    /\ last.venv = "failed" \/ last.phase1 = "failed" \/ last.phase2 = "failed"

\* C11: the fingerprint file changes only in a call of _ensure_project_venv in which
\* venv creation, Phase 1 and Phase 2 (when it ran) all succeeded, and it then
\* holds the fingerprint computed in that call
C11_StampOnlyOnSuccess ==
    [][stamp' # stamp
       => /\ last'.venv = "ok"
          /\ last'.phase1 = "ok"
          /\ last'.phase2 # "failed"
          /\ stamp' = ReqHash(manifests, essentials)]_vars

C11_Witness ==
    /\ last.wrote
    /\ last.phase2 = "ok"
    /\ stamp = ReqHash(last.inputs.manifests, last.inputs.essentials)

\* C12: once an install phase has failed, no call takes the up-to-date fast path
\* until a provisioning attempt has fully succeeded
C12_NeverCacheBroken == broken => ~last.fast

C14_CacheInvalidation ==
    /\ last.fast => stamp = ReqHash(last.inputs.manifests, last.inputs.essentials)
    /\ (last.again /\ ~last.unchanged) => ~last.fast

\* C15: a run whose provisioning failed (venv creation or an install phase) and
\* whose engine task ran to its completion commit is FAILED
C15_ProvisioningFailureFailsRun ==
    \A r \in Runs : (LastCallFailed /\ ended[r] = "completed") => status[r] = FAILED

\* C16: the step in which the 300 s limit ends the drain leaves the subprocess
\* not running and the run FAILED with "Test run timed out after 5 minutes",
\* and persists no outcome
C16_Timeout ==
    [][\A r \in Runs :
          (pc[r] = "drain" /\ pc'[r] = "done")
          => /\ status'[r] = FAILED
             /\ error_message'[r] = MsgTimeout
             /\ proc'[r] # "alive"
             /\ results'[r] = results[r]]_vars

\* C17: a cancel_run call kills exactly when the registry holds the run's handle
\* and its process has not exited, and changes neither the registry nor a status
C17_CancelRunExact ==
    [][\A r \in Runs :
          stops'[r].kill < stops[r].kill
          => /\ registry' = registry
             /\ status' = status
             /\ kills'[r] = kills[r] + 1 <=> (r \in registry /\ proc[r] = "alive")]_vars

\* C17 amended: a cancel_run call kills (and returns true) exactly when the
\* registry holds the run's handle and the exit of its process has not been
\* observed, which includes a process that has exited already; it changes neither
\* the registry nor a status
C17_CancelRunUnobservedExit ==
    [][\A r \in Runs :
          stops'[r].kill < stops[r].kill
          => /\ registry' = registry
             /\ status' = status
             /\ kills'[r] = kills[r] + 1 <=> (r \in registry /\ proc[r] # "reaped")
             /\ kills'[r] = kills[r] + 1 => proc'[r] = "dead"]_vars

C17_Witness ==
    \E r \in Runs :
        /\ kills[r] = 1
        /\ exitcode[r] = KilledCode
        /\ r \in registry
        /\ status[r] = RUNNING
        /\ stops[r].commit = 1

\* the run's report has been parsed
Parsed(r) == pc[r] \in {"refresh", "commit"} \/ ended[r] \in {"cancelled", "completed"}

\* C18: when structured parsing gives no outcome the result list is exactly one
\* synthetic outcome, PASSED for exit code 0 and FAILED otherwise, whose error text
\* comes from stderr, or from stdout when stderr is empty
C18_SyntheticFallback ==
    \A r \in Runs :
        (Parsed(r) /\ reported[r] = <<>>)
        => /\ synthetic[r].made
           /\ parsed[r] = <<synthetic[r].status>>
           /\ synthetic[r].status = (IF exitcode[r] = 0 THEN PASSED ELSE FAILED)
           /\ synthetic[r].error_message =
                 Strip(IF output[r].stderr # NoText THEN output[r].stderr
                       ELSE output[r].stdout)

C18_Witness ==
    \E r \in Runs :
        /\ Parsed(r) /\ reported[r] = <<>>
        /\ exitcode[r] = 1
        /\ output[r].stderr = NoText
        /\ synthetic[r].status = FAILED
        /\ synthetic[r].error_message = "text on stdout"

\* C19: every run of this process lifetime that is in a terminal status has at
\* least one persisted outcome
C19_AlwaysAnOutcome ==
    \A r \in Runs :
        (before[r].status = NoRow /\ status[r] \in Terminal) => Len(results[r]) >= 1

\* C19 amended: every run whose engine task made its completion commit has at
\* least one persisted outcome, the ones the normalizer returned
C19_OutcomeOnCompletion ==
    \A r \in Runs :
        ended[r] = "completed" => Len(results[r]) >= 1 /\ results[r] = parsed[r]

C19_Witness ==
    \E r \in Runs :
        /\ ended[r] = "completed"
        /\ reported[r] = <<>>
        /\ Len(results[r]) = 1

\* C20: a status changes from PENDING only to RUNNING or, by restart recovery, to
\* FAILED; and PASSED, CANCELLED and a FAILED other than by recovery are entered
\* only from RUNNING
C20_PendingTransitions ==
    [][\A r \in Runs :
          (status'[r] # status[r] /\ status[r] # NoRow)
          => /\ status[r] = PENDING
                => \/ status'[r] = RUNNING
                   \/ status'[r] = FAILED /\ error_message'[r] = MsgRestart
                                          /\ phase = "startup"
             /\ status'[r] \in {PASSED, CANCELLED} => status[r] = RUNNING
             /\ (status'[r] = FAILED /\ phase = "serving") => status[r] = RUNNING]_vars

\* the engine asks the project's login endpoint for a token and gets one
TokenObtained(c) ==
    /\ c.test_login_email # "" /\ c.test_login_password # "" /\ c.backend_url # ""
    /\ c.env_vars["TEST_AUTH_TOKEN"] = Missing
    /\ c.token # Missing

\* what _execute computes from the configuration: the credentials, the base URLs
\* and the token
Computed(c) ==
    [n \in EnvNames |->
        CASE n \in {"TEST_AUTH_TOKEN", "ACCESS_TOKEN"} /\ TokenObtained(c) -> c.token
          [] n = "AUTHORIZATION" /\ TokenObtained(c) -> "Bearer jwt"
          [] n = "TEST_LOGIN_EMAIL" /\ c.test_login_email # "" -> c.test_login_email
          [] n = "TEST_LOGIN_PASSWORD" /\ c.test_login_password # "" ->
                c.test_login_password
          [] n \in {"BACKEND_URL", "API_BASE_URL"} /\ c.backend_url # "" ->
                FixHostUrl(c.is_docker, c.backend_url)
          [] n = "FRONTEND_URL" /\ c.frontend_url # "" ->
                FixHostUrl(c.is_docker, c.frontend_url)
          [] OTHER -> Missing]

\* the values the project's .env files give a name
FromDotenv(c, n) ==
    IF c.is_workspace
    THEN {FixHostUrl(c.is_docker, c.dotenv[i].val) :
            i \in {j \in DOMAIN c.dotenv : c.dotenv[j].key = n}}
    ELSE {}

\* C21: in the environment built for the subprocess a computed value (base URL,
\* credentials) overrides a configured value of the same name, and a configured
\* value overrides a value read from a .env file of the project
C21_EnvPrecedence ==
    proc_env.built =>
        \A n \in EnvNames :
            IF Computed(config)[n] # Missing
            THEN proc_env.vars[n] = Computed(config)[n]
            ELSE IF config.env_vars[n] # Missing
                 THEN proc_env.vars[n] = config.env_vars[n]
                 ELSE FromDotenv(config, n) # {} =>
                        proc_env.vars[n] \in FromDotenv(config, n)

\* the directories a Playwright config within reach lies in
PlaywrightDirs(p) == {f.dir : f \in Globbed(p)}

\* the directories a pytest marker lies in
PytestDirs(p) ==
    {f.dir : f \in {g \in p.files : g.name \in pytest_cfgs /\ g.dir \in {".", "backend"}}}

\* C22: detection tries the frameworks in a fixed order and the first match decides
\* layer, command and working directory: Playwright, only when npx is installed,
\* then pytest markers in the root and backend subdirectories, then the test script
\* of package.json, only when npm is installed; when nothing matches or the root is
\* missing, not a directory or unreadable, it raises an error
C22_DetectionPriority ==
    detected.done =>
        LET p == project
            d == detected.result
        IN  IF p.root # "dir" THEN d.raised
            ELSE IF p.npx /\ PlaywrightDirs(p) # {}
                 THEN /\ ~d.raised /\ d.layer = "frontend"
                      /\ d.cmd[2] = "playwright" /\ d.cwd \in PlaywrightDirs(p)
            ELSE IF PytestDirs(p) # {}
                 THEN /\ ~d.raised /\ d.layer = "backend"
                      /\ "--json-report" \in {d.cmd[i] : i \in DOMAIN d.cmd}
                      /\ d.cwd \in PytestDirs(p)
            ELSE IF p.npm /\ p.test_script
                    /\ [dir |-> ".", name |-> "package.json"] \in p.files
                 THEN /\ ~d.raised /\ d.layer = "frontend"
                      /\ d.cmd[2] = "run" /\ d.cwd = "."
            ELSE d.raised

\* a project with a Playwright config and a pytest marker, npx installed
C22_Witness ==
    /\ detected.done
    /\ project.npx
    /\ PlaywrightDirs(project) # {} /\ PytestDirs(project) # {}
    /\ detected.result.layer = "frontend"

\* the project has a pytest config marker and nothing else
OnlyPytestMarker(p) ==
    /\ p.root = "dir"
    /\ p.files # {}
    /\ \A f \in p.files : f.name \in pytest_cfgs

\* C23: for a project that has only a pytest config marker, detection returns the
\* backend layer and a command whose executable is the sandbox's own pytest binary
\* when a sandbox bin directory is given and contains pytest, and otherwise a
\* system-installed pytest, or the interpreter with -m pytest when none is on PATH
C23_PytestBinary ==
    detected.done /\ OnlyPytestMarker(project) =>
        LET p == project
            d == detected.result
        IN  /\ ~d.raised /\ d.layer = "backend"
            /\ IF p.venv_bin.given /\ p.venv_bin.pytest
               THEN <<d.cmd[1]>> = VenvPytest(p.venv_bin.dir)
               ELSE IF p.which_pytest
                    THEN d.cmd[1] = "/usr/bin/pytest"
                    ELSE SubSeq(d.cmd, 1, 3) = <<"/usr/local/bin/python3", "-m", "pytest">>

\* the record's code is not valid where the tests run
NotValid(test) == ~IsPythonTestCode(test.test_code) \/ ~Compiles(test.test_code)

\* C24: every accepted generated-test record whose code is not valid in the target
\* environment (not Python, or Python that fails to compile) is skipped without
\* failing the run and is represented in the run's results by a distinct outcome
\* with status skipped
C24_InvalidSkipped ==
    \A r \in Runs :
        wroteTests[r] /\ ended[r] = "completed" =>
            /\ \A i \in DOMAIN accepted :
                  NotValid(accepted[i]) => \E j \in DOMAIN ts_skipped[r] : ts_skipped[r][j] = i
            /\ \A j \in DOMAIN ts_skipped[r] :
                  results[r][Len(results[r]) - Len(ts_skipped[r]) + j] = SKIPPED

\* the rounds, of those the agent may perform, whose review is approved
ApprovedRounds ==
    {i \in 1..agent.max_iterations :
        /\ ExtractCodeBlocks(oracle[i].generation) # <<>>
        /\ ContainsApproved(oracle[i].review)}

\* C25: generate() performs at most max_iterations rounds, and the number of rounds
\* it performed, returned as iterations, is the index of the first round whose
\* review is approved, or max_iterations when no round is approved
C25_BoundedRounds ==
    /\ agent.rounds <= agent.max_iterations
    /\ agent.pc = "returned" =>
          /\ agent.iterations = agent.rounds
          /\ agent.iterations =
                IF ApprovedRounds = {}
                THEN agent.max_iterations
                ELSE CHOOSE i \in ApprovedRounds : \A j \in ApprovedRounds : i <= j

\* the review rejected one round and approved the second of three
C25_Witness ==
    /\ agent.pc = "returned"
    /\ agent.max_iterations = 3
    /\ agent.iterations = 2

\* C26: outcomes are persisted in one batch together with the run's final status
\* and counts: in every durable state the number of outcome rows of a run equals
\* its total_tests, and a run that ends cancelled, timed out or failed before
\* execution has no outcome rows
C26_OutcomesAtomic ==
    \A r \in Runs :
        /\ Len(results[r]) = counts[r].total
        /\ status[r] = CANCELLED => results[r] = <<>>
        /\ status[r] = FAILED /\ error_message[r] # NoMessage => results[r] = <<>>

\* C27: once a stop request has recorded CANCELLED for a run, the engine does not
\* afterwards provision for it, launch its test subprocess or register a handle
\* for it
C27_NoLaunchAfterCancel ==
    [][\A r \in Runs :
          status[r] = CANCELLED =>
              /\ ~(pc[r] = "provision" /\ pc'[r] # "provision")
              /\ ~(proc[r] = "none" /\ proc'[r] = "alive")
              /\ ~(r \notin registry /\ r \in registry')]_vars

\* C28: every run whose engine task starts eventually reaches PASSED, FAILED or
\* CANCELLED, with its registry slot free, in the same process lifetime
C28_RunEnds ==
    \A r \in Runs :
        (pc[r] = "read_run") ~> (status[r] \in Terminal /\ r \notin registry)

\* C29: a run whose test subprocess exited with a non-zero exit code never ends
\* PASSED, whatever outcomes were parsed: the completion step marks it FAILED
C29_NonZeroExitFails ==
    \A r \in Runs :
        ended[r] = "completed" /\ exitcode[r] # 0 => status[r] # PASSED

\* C30: at most one scan job of a project is pending, scanning or generating at
\* any time, and a start_scan request answered 409 creates no job, however
\* concurrent start_scan requests for the project interleave
C30_OneActiveScan == Cardinality(ActiveJobs(scan_jobs)) <= 1

====
